---- MODULE Spec2Model ----
(***************************************************************************)
(* Test-session lifecycle, test assembly and entitlement gate of the       *)
(* test-prep platform backend (testService.ts, testRoutes, authController).*)
(* Time is counted in whole seconds.  A nullable column is a sequence of   *)
(* length 0 (null) or 1 (the value).                                       *)
(***************************************************************************)
EXTENDS Integers, Sequences, FiniteSets, Bags, TLC

VARIABLES
    now,        \* the wall clock read by new Date(), in seconds
    ticks,      \* how often the clock has advanced (caps the run)
    users,      \* User table: userId -> row
    pool,       \* Question table, seeded offline and immutable afterwards
    tests,      \* Test table with its TestQuestion rows, in creation order
    completing, \* completeTest calls between their findUnique and their update
    resumedAt,  \* per test: when a start call last resumed it from a pause (observer)
    response,   \* the response of the last request
    events,     \* the events the payment processor has to deliver, and may redeliver
    deliveries, \* how often each event has been handed to handleStripeWebhook
    sweeping,   \* expiry sweeps between their findMany and an update of a found row
    client      \* the test page open in the browser: its React state and timer

vars == <<now, ticks, users, pool, tests, completing, resumedAt, response,
          events, deliveries, sweeping, client>>

----------------------------------------------------------------------------
(* Bounds of the model *)

MaxTicks == 1
MaxTests == 1
MaxQuestions == 1
MaxInflight == 2
MaxStandalone == 2
MaxGroup == 2
MaxRequest == 3
MaxEvents == 2
MaxDeliveries == 2
MaxSweeping == 1
MaxCountdown == 2
MaxSends == 3

(* Program constants *)

TotalTestDuration == 3600
Day == 86400
TrialDays == 7
MonthDays == 30

Users == {"u1", "u2"}
Plans == {"ONE_MONTH", "THREE_MONTHS"}
NoPlan == "NONE"
OneTime == "ONE_TIME"
Choices == {"A", "B"}
SessionSteps == {600, TotalTestDuration}
GateSteps == {Day, TrialDays * Day + 1, MonthDays * Day}
RemainingInputs == {-1, 0, 1800}

Null == <<>>
Some(v) == <<v>>
IsNull(x) == x = <<>>
Val(x) == x[1]
Max(a, b) == IF a >= b THEN a ELSE b
Min(a, b) == IF a <= b THEN a ELSE b

----------------------------------------------------------------------------
(* Question bank *)

\* answerChoicesHtml: one element per choice, carrying the data-correct and
\* data-choice attributes of that choice.
AnswerChoicesHtml(correct) ==
    { [correct |-> (c = correct), choice |-> c] : c \in Choices }

\* One Question row.  passageId 0 stands for null.
Question(id, isPassage, passageId, subject, unit, correct) ==
    [id |-> id, isPassage |-> isPassage, passageId |-> passageId,
     subject |-> subject, unit |-> unit,
     answerChoicesHtml |-> AnswerChoicesHtml(correct)]

\* The bank the session specification runs on: passage 10 with sub-questions
\* 1 and 2, standalone questions 3 and 4.
SessionPool ==
    { Question(10, TRUE, 0, "Bio", "U1", "A"),
      Question(1, FALSE, 10, "Bio", "U1", "A"),
      Question(2, FALSE, 10, "Bio", "U1", "B"),
      Question(3, FALSE, 0, "Bio", "U1", "A"),
      Question(4, FALSE, 0, "Chem", "U2", "B") }

\* A bank of two passages (100 and 200) with g1 and g2 sub-questions and of s
\* standalone questions, spread over two subjects and units.
FamilyPool(s, g1, g2) ==
    { Question(100 * k, TRUE, 0, "Bio", "U1", "A") :
        k \in { j \in {1, 2} : IF j = 1 THEN g1 > 0 ELSE g2 > 0 } }
    \cup { Question(100 + i, FALSE, 100, "Bio",
                    IF i = 2 THEN "U2" ELSE "U1", "A") : i \in 1..g1 }
    \cup { Question(200 + i, FALSE, 200, "Bio", "U1", "B") : i \in 1..g2 }
    \cup { Question(300 + i, FALSE, 0,
                    IF i % 2 = 1 THEN "Bio" ELSE "Chem",
                    IF i % 2 = 1 THEN "U1" ELSE "U2", "A") : i \in 1..s }

\* Eight standalone questions and one passage with ten sub-questions.
ExamplePool == FamilyPool(8, 10, 0)

PoolFamily ==
    { FamilyPool(s, g1, g2) :
        s \in 0..MaxStandalone, g1 \in 0..MaxGroup, g2 \in 0..MaxGroup }
    \cup {ExamplePool}

QuestionById(id) == CHOOSE q \in pool : q.id = id

\* whereCondition: a filter list that is empty does not restrict.
MatchesFilter(q, subjectFilters, unitFilters) ==
    /\ (subjectFilters = {} \/ q.subject \in subjectFilters)
    /\ (unitFilters = {} \/ q.unit \in unitFilters)

PassageQuestions(subjectFilters, unitFilters) ==
    { q \in pool : /\ MatchesFilter(q, subjectFilters, unitFilters)
                   /\ ~q.isPassage /\ q.passageId # 0 }

StandaloneQuestions(subjectFilters, unitFilters) ==
    { q \in pool : /\ MatchesFilter(q, subjectFilters, unitFilters)
                   /\ ~q.isPassage /\ q.passageId = 0 }

----------------------------------------------------------------------------
(* Test assembly: createTest, testService.ts 263-413 *)

RECURSIVE SortById(_)
\* The rows of a query result in ascending id order.
SortById(S) ==
    IF S = {} THEN <<>>
    ELSE LET m == CHOOSE q \in S : \A r \in S : q.id <= r.id
         IN  <<m>> \o SortById(S \ {m})

RECURSIVE SortInts(_)
SortInts(S) ==
    IF S = {} THEN <<>>
    ELSE LET m == CHOOSE x \in S : \A y \in S : x <= y
         IN  <<m>> \o SortInts(S \ {m})

\* passageGroups: the passage questions grouped by passageId; Object.values
\* lists the groups in insertion order, which is the query's passageId order.
PassageGroups(subjectFilters, unitFilters) ==
    LET pq   == PassageQuestions(subjectFilters, unitFilters)
        keys == SortInts({ q.passageId : q \in pq })
    IN  [ i \in 1..Len(keys) |-> SortById({ q \in pq : q.passageId = keys[i] }) ]

\* Array.prototype.sort is stable: a group goes behind every group that is at
\* least as long.
InsertBySize(sorted, g) ==
    LET k == Cardinality({ i \in 1..Len(sorted) : Len(sorted[i]) >= Len(g) })
    IN  SubSeq(sorted, 1, k) \o <<g>> \o SubSeq(sorted, k + 1, Len(sorted))

RECURSIVE SortBySizeDesc(_, _)
SortBySizeDesc(groups, sorted) ==
    IF groups = <<>> THEN sorted
    ELSE SortBySizeDesc(Tail(groups), InsertBySize(sorted, Head(groups)))

SortedPassageGroups(subjectFilters, unitFilters) ==
    SortBySizeDesc(PassageGroups(subjectFilters, unitFilters), <<>>)

\* Math.floor(numQuestions * 0.75)
PassageQuestionCount(numQuestions) == (3 * numQuestions) \div 4

RECURSIVE SelectPassageGroups_Splits(_, _, _)
\* Mutant: a group that does not fit entirely is cut to the slots left.
SelectPassageGroups_Splits(groups, selected, passageQuestionCount) ==
    IF Len(selected) < passageQuestionCount /\ Len(groups) > 0
    THEN LET selectedGroup == Head(groups)
             fits == Min(Len(selectedGroup), passageQuestionCount - Len(selected))
         IN  SelectPassageGroups_Splits(
                 Tail(groups), selected \o SubSeq(selectedGroup, 1, fits),
                 passageQuestionCount)
    ELSE [selected |-> selected, groups |-> groups]

RECURSIVE SelectPassageGroups(_, _, _)
\* The while loop: shift the largest group, add it if it fits entirely.
SelectPassageGroups(groups, selected, passageQuestionCount) ==
    IF Len(selected) < passageQuestionCount /\ Len(groups) > 0
    THEN LET selectedGroup == Head(groups)
         IN  SelectPassageGroups(
                 Tail(groups),
                 IF Len(selected) + Len(selectedGroup) <= passageQuestionCount
                 THEN selected \o selectedGroup ELSE selected,
                 passageQuestionCount)
    ELSE [selected |-> selected, groups |-> groups]

\* What createTest has decided before it draws random numbers.
Assemble(subjectFilters, unitFilters, numQuestions) ==
    LET loop == SelectPassageGroups(
                    SortedPassageGroups(subjectFilters, unitFilters), <<>>,
                    PassageQuestionCount(numQuestions))
        standalone == StandaloneQuestions(subjectFilters, unitFilters)
        remainingSlots == numQuestions - Len(loop.selected)
        take == Min(Max(remainingSlots, 0), Cardinality(standalone))
        total == Len(loop.selected) + take
    IN  [ passage |-> loop.selected,
          sortedPassageGroups |-> loop.groups,
          standalone |-> standalone,
          take |-> take,
          totalAvailableQuestions |-> total,
          insufficient |-> total < numQuestions ]

\* passageBlocks: the selected passage questions regrouped by passageId.
PassageBlocks(selected) ==
    { SelectSeq(selected, LAMBDA q : q.passageId = k) :
        k \in { selected[i].passageId : i \in 1..Len(selected) } }

\* sort(() => 0.5 - Math.random()): any order of the items.
Shuffles(items) ==
    { f \in [1..Cardinality(items) -> items] :
        \A i, j \in 1..Cardinality(items) : i # j => f[i] # f[j] }

RECURSIVE Flatten(_)
Flatten(blocks) ==
    IF blocks = <<>> THEN <<>> ELSE Head(blocks) \o Flatten(Tail(blocks))

\* Mutant: the selected questions are shuffled one by one, not block by block.
FinalSelections_Interleaved(asm) ==
    UNION { Shuffles({ asm.passage[i] : i \in 1..Len(asm.passage) } \cup S) :
              S \in { T \in SUBSET asm.standalone : Cardinality(T) = asm.take } }

\* The orders finalSelectedQuestions can have.
FinalSelections(asm) ==
    { Flatten(order) :
        order \in UNION { Shuffles(PassageBlocks(asm.passage) \cup { <<q>> : q \in S }) :
                            S \in { T \in SUBSET asm.standalone :
                                       Cardinality(T) = asm.take } } }

----------------------------------------------------------------------------
(* Users and the entitlement status *)

NoUser ==
    [ exists |-> FALSE, isPaidMember |-> FALSE,
      trialStartDate |-> Null, trialEndDate |-> Null,
      subscriptionType |-> NoPlan, subscriptionLength |-> NoPlan,
      subscriptionStartDate |-> Null, subscriptionEndDate |-> Null,
      lastSubscriptionEndDate |-> Null ]

\* Mutant: the three-month plan lasts as long as the one-month plan.
getSubscriptionDuration_OneLength(subscriptionLength) ==
    CASE subscriptionLength = "ONE_MONTH" -> MonthDays * Day
      [] subscriptionLength = "THREE_MONTHS" -> MonthDays * Day
      [] OTHER -> 0

\* getSubscriptionDuration of authController.ts, in seconds.
getSubscriptionDuration(subscriptionLength) ==
    CASE subscriptionLength = "ONE_MONTH" -> MonthDays * Day
      [] subscriptionLength = "THREE_MONTHS" -> 3 * MonthDays * Day
      [] OTHER -> 0

\* Mutant: the trial window is given to every new user and ends after six days.
RegisteredUser_SixDayTrial(subscriptionLength, at) ==
    LET isPaidMember == subscriptionLength # NoPlan
    IN  [ exists |-> TRUE, isPaidMember |-> isPaidMember,
          trialStartDate |-> Some(at),
          trialEndDate |-> Some(at + (TrialDays - 1) * Day),
          subscriptionType |-> IF isPaidMember THEN OneTime ELSE NoPlan,
          subscriptionLength |-> subscriptionLength,
          subscriptionStartDate |-> IF isPaidMember THEN Some(at) ELSE Null,
          subscriptionEndDate |->
              IF isPaidMember
              THEN Some(at + getSubscriptionDuration(subscriptionLength))
              ELSE Null,
          lastSubscriptionEndDate |-> Null ]

\* The row register creates.
RegisteredUser(subscriptionLength, at) ==
    LET isPaidMember == subscriptionLength # NoPlan
    IN  [ exists |-> TRUE, isPaidMember |-> isPaidMember,
          trialStartDate |-> IF isPaidMember THEN Null ELSE Some(at),
          trialEndDate |-> IF isPaidMember THEN Null ELSE Some(at + TrialDays * Day),
          subscriptionType |-> IF isPaidMember THEN OneTime ELSE NoPlan,
          subscriptionLength |-> subscriptionLength,
          subscriptionStartDate |-> IF isPaidMember THEN Some(at) ELSE Null,
          subscriptionEndDate |->
              IF isPaidMember
              THEN Some(at + getSubscriptionDuration(subscriptionLength))
              ELSE Null,
          lastSubscriptionEndDate |-> Null ]

\* Mutant: a subscription that ends at this very instant still counts as active.
getUserSubscriptionStatus_EndInclusive(user, t) ==
    IF /\ user.isPaidMember /\ ~IsNull(user.subscriptionEndDate)
       /\ Val(user.subscriptionEndDate) >= t
    THEN [status |-> "ACTIVE_PAID", canExtend |-> TRUE, canPurchase |-> FALSE]
    ELSE IF /\ ~user.isPaidMember
            /\ ~IsNull(user.trialStartDate) /\ ~IsNull(user.trialEndDate)
            /\ t >= Val(user.trialStartDate) /\ t <= Val(user.trialEndDate)
    THEN [status |-> "ACTIVE_TRIAL", canExtend |-> FALSE, canPurchase |-> TRUE]
    ELSE IF /\ user.isPaidMember /\ ~IsNull(user.subscriptionEndDate)
            /\ Val(user.subscriptionEndDate) < t
    THEN [status |-> "EXPIRED_PAID", canExtend |-> TRUE, canPurchase |-> TRUE]
    ELSE IF /\ ~user.isPaidMember /\ ~IsNull(user.trialEndDate)
            /\ Val(user.trialEndDate) <= t
    THEN [status |-> "EXPIRED_TRIAL", canExtend |-> FALSE, canPurchase |-> TRUE]
    ELSE [status |-> "NO_SUBSCRIPTION", canExtend |-> FALSE, canPurchase |-> TRUE]

\* The decision order of getUserSubscriptionStatus, at time t.
getUserSubscriptionStatus(user, t) ==
    IF /\ user.isPaidMember /\ ~IsNull(user.subscriptionEndDate)
       /\ Val(user.subscriptionEndDate) > t
    THEN [status |-> "ACTIVE_PAID", canExtend |-> TRUE, canPurchase |-> FALSE]
    ELSE IF /\ ~user.isPaidMember
            /\ ~IsNull(user.trialStartDate) /\ ~IsNull(user.trialEndDate)
            /\ t >= Val(user.trialStartDate) /\ t <= Val(user.trialEndDate)
    THEN [status |-> "ACTIVE_TRIAL", canExtend |-> FALSE, canPurchase |-> TRUE]
    ELSE IF /\ user.isPaidMember /\ ~IsNull(user.subscriptionEndDate)
            /\ Val(user.subscriptionEndDate) <= t
    THEN [status |-> "EXPIRED_PAID", canExtend |-> TRUE, canPurchase |-> TRUE]
    ELSE IF /\ ~user.isPaidMember /\ ~IsNull(user.trialEndDate)
            /\ Val(user.trialEndDate) <= t
    THEN [status |-> "EXPIRED_TRIAL", canExtend |-> FALSE, canPurchase |-> TRUE]
    ELSE [status |-> "NO_SUBSCRIPTION", canExtend |-> FALSE, canPurchase |-> TRUE]

----------------------------------------------------------------------------
(* Test sessions *)

\* The response of a test route: which handler answered whom about which
\* test, whether it succeeded, and the number it carried (remaining seconds,
\* score or availableQuestions).
Resp(op, user, test, ok, val) ==
    [op |-> op, user |-> user, test |-> test, ok |-> ok, val |-> val]

\* The response to a createTest request, with the request it answers.
CreateResp(user, subjectFilters, unitFilters, numQuestions, test, ok, val) ==
    [ op |-> "createTest", user |-> user, test |-> test, ok |-> ok, val |-> val,
      subjectFilters |-> subjectFilters, unitFilters |-> unitFilters,
      numQuestions |-> numQuestions ]

\* The Test row createTest writes, with its TestQuestion rows.  The columns no
\* operation reads (testId, createdAt, updatedAt, completedAt) are left out.
NewTest(userId, selection) ==
    [ userId |-> userId, status |-> "IN_PROGRESS",
      totalTestDuration |-> TotalTestDuration,
      startTime |-> Some(now), pausedTime |-> Null,
      remainingSeconds |-> Some(TotalTestDuration),
      score |-> Null,
      testQuestions |->
          [ i \in 1..Len(selection) |->
              [questionId |-> selection[i].id, userAnswer |-> Null] ] ]

\* prisma.test.findUnique({ where: { id: testId, userId } }) finds a row.
FindTest(testId, userId) ==
    testId \in 1..Len(tests) /\ tests[testId].userId = userId

\* The remaining time getTestDetails computes for a test row.
RemainingTime(test) ==
    IF ~IsNull(test.startTime) /\ ~IsNull(test.remainingSeconds)
       /\ Val(test.remainingSeconds) # 0
    THEN LET elapsedTime == IF ~IsNull(test.pausedTime) THEN 0
                            ELSE now - Val(test.startTime)
         IN  Max(Val(test.remainingSeconds) - elapsedTime, 0)
    ELSE test.totalTestDuration

\* tq.userAnswer && answerChoicesHtml.includes(
\*     `data-correct="true" data-choice="${tq.userAnswer}"`)
IsCorrect(tq) ==
    /\ ~IsNull(tq.userAnswer)
    /\ [correct |-> TRUE, choice |-> Val(tq.userAnswer)]
           \in QuestionById(tq.questionId).answerChoicesHtml

CorrectAnswers(testQuestions) ==
    Cardinality({ i \in 1..Len(testQuestions) : IsCorrect(testQuestions[i]) })

\* Math.round((correctAnswers / totalQuestions) * 100): half rounds up.  For a
\* test without questions the quotient is NaN, which the JSON query carries
\* as null.
Score(correctAnswers, totalQuestions) ==
    IF totalQuestions > 0
    THEN Some((200 * correctAnswers + totalQuestions) \div (2 * totalQuestions))
    ELSE Null

Filters == { <<{}, {}>>, <<{"Bio"}, {"U1"}>> }

----------------------------------------------------------------------------
(* Actions *)

\* No test page is open.
NoClient == [view |-> "none"]

NoResponse == [op |-> "none", user |-> "none", test |-> 0, ok |-> FALSE, val |-> 0]

\* The service right after deployment: nobody has registered.
Init ==
    /\ now = 0
    /\ ticks = 0
    /\ users = [u \in Users |-> NoUser]
    /\ pool = SessionPool
    /\ tests = <<>>
    /\ completing = EmptyBag
    /\ resumedAt = <<>>
    /\ response = NoResponse
    /\ events = {}
    /\ deliveries = EmptyBag
    /\ sweeping = {}
    /\ client = NoClient

\* Time passes.
Tick(d) ==
    /\ ticks < MaxTicks
    /\ now' = now + d
    /\ ticks' = ticks + 1
    /\ UNCHANGED <<users, pool, tests, completing, resumedAt, response, events, deliveries, sweeping, client>>

\* POST /api/auth/register
register(u, subscriptionLength) ==
    /\ ~users[u].exists
    /\ users' = [users EXCEPT ![u] = RegisteredUser(subscriptionLength, now)]
    /\ UNCHANGED <<now, ticks, pool, tests, completing, resumedAt, response, events, deliveries, sweeping, client>>

\* POST /api/tests: createTestHandler, then testService.createTest
createTest(userId, subjectFilters, unitFilters, numQuestions) ==
    /\ users[userId].exists
    /\ LET asm == Assemble(subjectFilters, unitFilters, numQuestions)
       IN  IF asm.insufficient
           THEN /\ response' = CreateResp(userId, subjectFilters, unitFilters,
                                           numQuestions, 0, FALSE,
                                           asm.totalAvailableQuestions)
                /\ UNCHANGED <<tests, resumedAt>>
           ELSE /\ Len(tests) < MaxTests
                /\ \E final \in FinalSelections(asm) :
                      tests' = Append(tests,
                          NewTest(userId,
                                  SubSeq(final, 1, Min(numQuestions, Len(final)))))
                /\ resumedAt' = Append(resumedAt, Null)
                /\ response' = CreateResp(userId, subjectFilters, unitFilters,
                                           numQuestions, Len(tests) + 1, TRUE,
                                           numQuestions)
    /\ UNCHANGED <<now, ticks, users, pool, completing, events, deliveries, sweeping, client>>

\* GET /api/tests/:testId
getTestDetails(testId, userId) ==
    /\ users[userId].exists
    /\ response' = IF FindTest(testId, userId)
                   THEN Resp("getTestDetails", userId, testId, TRUE,
                             RemainingTime(tests[testId]))
                   ELSE Resp("getTestDetails", userId, testId, FALSE, 0)
    /\ UNCHANGED <<now, ticks, users, pool, tests, completing, resumedAt, events, deliveries, sweeping, client>>

\* Mutant: the TestQuestion row is looked up, its test's owner is not compared.
OwnsTestQuestion_NoOwnerCheck(testId, index, userId) ==
    /\ testId \in 1..Len(tests)
    /\ index \in 1..Len(tests[testId].testQuestions)

\* The ownership check of updateTestQuestionAnswer: the TestQuestion row is
\* found by its own id, and the owner is read through its test relation.
OwnsTestQuestion(testId, index, userId) ==
    /\ testId \in 1..Len(tests)
    /\ index \in 1..Len(tests[testId].testQuestions)
    /\ tests[testId].userId = userId

\* Mutant: an answer already given is kept, the first write wins.
AnsweredTest_FirstWriteWins(test, index, userAnswer) ==
    IF IsNull(test.testQuestions[index].userAnswer)
    THEN [test EXCEPT !.testQuestions[index].userAnswer = Some(userAnswer)]
    ELSE test

\* The test after prisma.testQuestion.update({ data: { userAnswer } }) on its
\* index-th TestQuestion row.
AnsweredTest(test, index, userAnswer) ==
    [test EXCEPT !.testQuestions[index].userAnswer = Some(userAnswer)]

\* The updated TestQuestion row the route returns: which row, and its answer.
AnswerResp(user, test, index, userAnswer) ==
    [ op |-> "recordAnswer", user |-> user, test |-> test, ok |-> TRUE,
      val |-> index, userAnswer |-> userAnswer ]

\* PATCH /api/tests/questions/:testQuestionId, the TestQuestion being the
\* index-th row of test testId.  The router mounted at /api/tests answers every
\* such request, so the later app.patch handler on the same path is never run.
updateTestQuestionAnswer(testId, index, userId, userAnswer) ==
    /\ users[userId].exists
    /\ IF OwnsTestQuestion(testId, index, userId)
       THEN /\ tests' = [tests EXCEPT
                            ![testId] = AnsweredTest(tests[testId], index, userAnswer)]
            /\ response' = AnswerResp(userId, testId, index, userAnswer)
       ELSE /\ response' = Resp("recordAnswer", userId, testId, FALSE, index)
            /\ UNCHANGED tests
    /\ UNCHANGED <<now, ticks, users, pool, completing, resumedAt, events, deliveries, sweeping, client>>

\* Mutant: every start call restarts the timer.
StartedTest_AlwaysResets(test) ==
    [test EXCEPT !.startTime = Some(now),
                 !.pausedTime = Null,
                 !.remainingSeconds = Some(test.totalTestDuration)]

\* The row startOrResumeTest writes for a test it has found.
StartedTest(test) ==
    IF IsNull(test.startTime)
    THEN [test EXCEPT !.startTime = Some(now),
                      !.remainingSeconds = Some(test.totalTestDuration)]
    ELSE [test EXCEPT !.pausedTime = Null]

\* POST /api/tests/:testId/start
startOrResumeTest(testId, userId) ==
    /\ users[userId].exists
    /\ IF FindTest(testId, userId)
       THEN /\ tests' = [tests EXCEPT ![testId] = StartedTest(tests[testId])]
            /\ resumedAt' = IF IsNull(tests[testId].pausedTime) THEN resumedAt
                            ELSE [resumedAt EXCEPT ![testId] = Some(now)]
            /\ response' = Resp("start", userId, testId, TRUE, 0)
       ELSE /\ response' = Resp("start", userId, testId, FALSE, 0)
            /\ UNCHANGED <<tests, resumedAt>>
    /\ UNCHANGED <<now, ticks, users, pool, completing, events, deliveries, sweeping, client>>

\* The row pauseTest writes.
PausedTest(test, remainingSeconds) ==
    [test EXCEPT !.pausedTime = Some(now),
                 !.remainingSeconds = Some(remainingSeconds)]

\* POST /api/tests/:testId/pause
pauseTest(testId, userId, remainingSeconds) ==
    /\ users[userId].exists
    /\ IF FindTest(testId, userId)
       THEN /\ tests' = [tests EXCEPT
                            ![testId] = PausedTest(tests[testId], remainingSeconds)]
            /\ resumedAt' = [resumedAt EXCEPT ![testId] = Null]
            /\ response' = Resp("pause", userId, testId, TRUE, remainingSeconds)
       ELSE /\ response' = Resp("pause", userId, testId, FALSE, remainingSeconds)
            /\ UNCHANGED <<tests, resumedAt>>
    /\ UNCHANGED <<now, ticks, users, pool, completing, events, deliveries, sweeping, client>>

\* POST /api/tests/:testId/complete, first half: completeTest reads the test
\* with its questions and counts the correct answers.
completeTestRead(testId, userId) ==
    /\ users[userId].exists
    /\ IF FindTest(testId, userId)
       THEN /\ BagCardinality(completing) < MaxInflight
            /\ completing' = completing (+) SetToBag({
                   [ testId |-> testId, userId |-> userId,
                     totalQuestions |-> Len(tests[testId].testQuestions),
                     correctAnswers |-> CorrectAnswers(tests[testId].testQuestions) ] })
            /\ UNCHANGED response
       ELSE /\ response' = Resp("complete", userId, testId, FALSE, 0)
            /\ UNCHANGED completing
    /\ UNCHANGED <<now, ticks, users, pool, tests, resumedAt, events, deliveries, sweeping, client>>

\* The row the update of completeTest writes from what the call has read.
CompletedTest(test, call) ==
    [test EXCEPT !.status = "COMPLETED",
                 !.score = Score(call.correctAnswers, call.totalQuestions)]

\* Second half of completeTest: the update.
completeTestWrite(call) ==
    /\ BagIn(call, completing)
    /\ tests' = [tests EXCEPT ![call.testId] =
                     CompletedTest(tests[call.testId], call)]
    /\ response' = Resp("complete", call.userId, call.testId, TRUE,
                        call.correctAnswers)
    /\ completing' = completing (-) SetToBag({call})
    /\ UNCHANGED <<now, ticks, users, pool, resumedAt, events, deliveries, sweeping, client>>

\* Two users have registered at time 0, u1 on a trial and u2 with a paid month.
SessionInit ==
    /\ now = 0
    /\ ticks = 0
    /\ users = [u \in Users |->
                  RegisteredUser(IF u = "u1" THEN NoPlan ELSE "ONE_MONTH", 0)]
    /\ pool = SessionPool
    /\ tests = <<>>
    /\ completing = EmptyBag
    /\ resumedAt = <<>>
    /\ response = NoResponse
    /\ events = {}
    /\ deliveries = EmptyBag
    /\ sweeping = {}
    /\ client = NoClient

Next ==
    \/ \E d \in SessionSteps : Tick(d)
    \/ \E u \in Users, f \in Filters, n \in 0..MaxQuestions :
          createTest(u, f[1], f[2], n)
    \/ \E t \in 1..MaxTests, u \in Users : getTestDetails(t, u)
    \/ \E t \in 1..MaxTests, i \in 1..MaxQuestions, u \in Users, a \in Choices :
          updateTestQuestionAnswer(t, i, u, a)
    \/ \E t \in 1..MaxTests, u \in Users : startOrResumeTest(t, u)
    \/ \E t \in 1..MaxTests, u \in Users, r \in RemainingInputs :
          pauseTest(t, u, r)
    \/ \E t \in 1..MaxTests, u \in Users : completeTestRead(t, u)
    \/ \E call \in BagToSet(completing) : completeTestWrite(call)

\* The test sessions of two registered users.
Spec == SessionInit /\ [][Next]_vars

GateNext ==
    \/ \E d \in GateSteps : Tick(d)
    \/ \E u \in Users, len \in Plans \cup {NoPlan} : register(u, len)
    \/ \E u \in Users, f \in Filters, n \in 0..MaxQuestions :
          createTest(u, f[1], f[2], n)

\* One registered user and any bank of the family.
AssembleInit ==
    /\ now = 0
    /\ ticks = 0
    /\ users = [u \in Users |->
                  IF u = "u1" THEN RegisteredUser(NoPlan, 0) ELSE NoUser]
    /\ pool \in PoolFamily
    /\ tests = <<>>
    /\ completing = EmptyBag
    /\ resumedAt = <<>>
    /\ response = NoResponse
    /\ events = {}
    /\ deliveries = EmptyBag
    /\ sweeping = {}
    /\ client = NoClient

\* The question counts requested of a bank.
Requests == IF pool = ExamplePool THEN {10} ELSE 0..MaxRequest

AssembleNext ==
    \E f \in Filters, n \in Requests : createTest("u1", f[1], f[2], n)

\* Test creation over every bank of the family.
SpecAssemble == AssembleInit /\ [][AssembleNext]_vars

\* Registration, the passing of days, and test creation.
SpecGate == Init /\ [][GateNext]_vars

----------------------------------------------------------------------------
(* Entitlement status and billing *)

\* The response of a membership-status request.
MembershipResp(user, info) ==
    [ op |-> "membership-status", user |-> user, test |-> 0, ok |-> TRUE,
      val |-> 0, status |-> info.status, canExtend |-> info.canExtend,
      canPurchase |-> info.canPurchase ]

\* GET /api/auth/membership-status (and /subscription-status): the handler of
\* authRoutes.ts answers with getUserSubscriptionStatus(userId).
getMembershipStatus(userId) ==
    /\ users[userId].exists
    /\ response' = MembershipResp(userId,
                                  getUserSubscriptionStatus(users[userId], now))
    /\ UNCHANGED <<now, ticks, users, pool, tests, completing, resumedAt, events, deliveries, sweeping, client>>

\* Date arithmetic of stripeUtils.ts.  Second 0 of the model is 1 January
\* 2025, 00:00.
IsLeapYear(y) == y % 4 = 0 /\ (y % 100 # 0 \/ y % 400 = 0)

DaysInMonth(y, m) ==
    IF m = 2 THEN (IF IsLeapYear(y) THEN 29 ELSE 28)
    ELSE IF m \in {4, 6, 9, 11} THEN 30 ELSE 31

RECURSIVE CivilDate(_, _, _)
\* Year, month and day of the month of the day that lies d days after the
\* first of month m of year y.
CivilDate(y, m, d) ==
    IF d < DaysInMonth(y, m) THEN [year |-> y, month |-> m, date |-> d + 1]
    ELSE CivilDate(IF m = 12 THEN y + 1 ELSE y, IF m = 12 THEN 1 ELSE m + 1,
                   d - DaysInMonth(y, m))

RECURSIVE DaysUntilMonth(_, _, _, _)
\* The days from the first of month m0 of year y0 to the first of month m of
\* year y.
DaysUntilMonth(y0, m0, y, m) ==
    IF y0 = y /\ m0 = m THEN 0
    ELSE DaysInMonth(y0, m0)
           + DaysUntilMonth(IF m0 = 12 THEN y0 + 1 ELSE y0,
                            IF m0 = 12 THEN 1 ELSE m0 + 1, y, m)

\* endDate.setMonth(endDate.getMonth() + n): the same day of the month n
\* months on; a day the target month does not have runs over into the next.
setMonth(t, n) ==
    LET c == CivilDate(2025, 1, t \div Day)
        index == c.month - 1 + n
        y == c.year + index \div 12
        m == (index % 12) + 1
    IN  (DaysUntilMonth(2025, 1, y, m) + c.date - 1) * Day + (t % Day)

\* calculateSubscriptionEndDate(subscriptionLength, existingEndDate)
calculateSubscriptionEndDate(subscriptionLength, existingEndDate) ==
    setMonth(existingEndDate, IF subscriptionLength = "THREE_MONTHS" THEN 3 ELSE 1)

\* calculateRemainingTrialDays of subscriptionUtils.ts, read at time t.
calculateRemainingTrialDays(trialEndDate, trialStartDate, t) ==
    IF IsNull(trialEndDate) \/ IsNull(trialStartDate) THEN Null
    ELSE IF t < Val(trialStartDate) THEN Null
    ELSE IF Val(trialEndDate) > t
    THEN Some((Val(trialEndDate) - t + Day - 1) \div Day)
    ELSE LET daysSinceTrialEnd == (t - Val(trialEndDate) + Day - 1) \div Day
         IN  IF daysSinceTrialEnd <= 1 THEN Some(0) ELSE Null

\* The response of a billing route: the plan asked for and the payment
\* processor's event the request gave rise to (0: none).
BillingResp(op, user, ok, subscriptionLength, event) ==
    [ op |-> op, user |-> user, test |-> 0, ok |-> ok, val |-> event,
      subscriptionLength |-> subscriptionLength ]

\* An event of the payment processor with the metadata the handlers read.
Event(id, type, userId, subscriptionLength) ==
    [ id |-> id, type |-> type, userId |-> userId,
      subscriptionLength |-> subscriptionLength ]

\* The row written by createOneTimePayment and by the webhook's
\* checkout.session.completed and payment_intent.succeeded cases.
PurchasedUser(user, subscriptionLength) ==
    [user EXCEPT !.isPaidMember = TRUE,
                 !.trialStartDate = Null, !.trialEndDate = Null,
                 !.subscriptionStartDate = Some(now),
                 !.subscriptionEndDate =
                     Some(calculateSubscriptionEndDate(subscriptionLength, now)),
                 !.subscriptionType = OneTime,
                 !.subscriptionLength = subscriptionLength]

\* Mutant: the user row is written before the charge is known to have succeeded.
UserAfterOneTimePayment_WritesBeforeCharge(user, subscriptionLength, charged) ==
    PurchasedUser(user, subscriptionLength)

\* createOneTimePayment: stripe.paymentIntents.create throws when the charge
\* fails, and the update is skipped.  (The stripeCustomerId written before the
\* charge is no entitlement column and is not modelled.)
UserAfterOneTimePayment(user, subscriptionLength, charged) ==
    IF charged THEN PurchasedUser(user, subscriptionLength) ELSE user

\* Mutant: a renewal leaves the trial dates of the row as they are.
RenewedUser_KeepsTrial(user, subscriptionLength) ==
    LET currentSubscriptionEndDate ==
            IF IsNull(user.subscriptionEndDate) THEN now
            ELSE Val(user.subscriptionEndDate)
        subscriptionStartDate == Max(currentSubscriptionEndDate, now)
    IN  [user EXCEPT
            !.isPaidMember = TRUE,
            !.subscriptionStartDate =
                IF IsNull(user.subscriptionStartDate)
                THEN Some(subscriptionStartDate) ELSE user.subscriptionStartDate,
            !.subscriptionEndDate =
                Some(calculateSubscriptionEndDate(subscriptionLength,
                                                  subscriptionStartDate)),
            !.lastSubscriptionEndDate = user.subscriptionEndDate]

\* The row renewSubscription writes after a successful charge.
RenewedUser(user, subscriptionLength) ==
    LET currentSubscriptionEndDate ==
            IF IsNull(user.subscriptionEndDate) THEN now
            ELSE Val(user.subscriptionEndDate)
        subscriptionStartDate ==
            IF currentSubscriptionEndDate > now
            THEN currentSubscriptionEndDate ELSE now
    IN  [user EXCEPT
            !.isPaidMember = TRUE,
            !.subscriptionStartDate =
                IF IsNull(user.subscriptionStartDate)
                THEN Some(subscriptionStartDate) ELSE user.subscriptionStartDate,
            !.subscriptionEndDate =
                Some(calculateSubscriptionEndDate(subscriptionLength,
                                                  subscriptionStartDate)),
            !.lastSubscriptionEndDate = user.subscriptionEndDate,
            !.trialStartDate = Null, !.trialEndDate = Null]

UserAfterRenewal(user, subscriptionLength, charged) ==
    IF charged THEN RenewedUser(user, subscriptionLength) ELSE user

\* Mutant: a cancellation clears the paid period and grants no trial.
CancelledUser_NoTrial(user) ==
    [user EXCEPT !.isPaidMember = FALSE,
                 !.subscriptionStartDate = Null, !.subscriptionEndDate = Null,
                 !.subscriptionType = NoPlan, !.subscriptionLength = NoPlan]

\* The row the webhook's customer.subscription.deleted case writes.
CancelledUser(user) ==
    [user EXCEPT !.isPaidMember = FALSE,
                 !.subscriptionStartDate = Null, !.subscriptionEndDate = Null,
                 !.subscriptionType = NoPlan, !.subscriptionLength = NoPlan,
                 !.trialStartDate = Some(now),
                 !.trialEndDate = Some(now + TrialDays * Day)]

\* The switch of handleStripeWebhook.
WebhookUser(user, event) ==
    CASE event.type = "checkout.session.completed" ->
             PurchasedUser(user, IF event.subscriptionLength = NoPlan
                                 THEN "ONE_MONTH" ELSE event.subscriptionLength)
      [] event.type = "payment_intent.succeeded" ->
             PurchasedUser(user, IF event.subscriptionLength = "THREE_MONTHS"
                                 THEN "THREE_MONTHS" ELSE "ONE_MONTH")
      [] event.type = "customer.subscription.deleted" -> CancelledUser(user)
      [] OTHER -> user

\* The rows checkAndUpdateExpiredSubscriptions finds.
SubscriptionExpired(user) ==
    /\ user.exists /\ user.isPaidMember
    /\ ~IsNull(user.subscriptionEndDate) /\ Val(user.subscriptionEndDate) < now

\* Mutant: the sweep clears the subscription columns and leaves the paid flag.
SweptUser_KeepsPaidFlag(user, sweptAt) ==
    [user EXCEPT !.subscriptionType = NoPlan,
                 !.subscriptionStartDate = Null, !.subscriptionLength = NoPlan,
                 !.subscriptionEndDate = Null,
                 !.lastSubscriptionEndDate = Some(sweptAt),
                 !.trialStartDate = Null, !.trialEndDate = Null]

\* The row an update of checkAndUpdateExpiredSubscriptions writes; sweptAt is
\* the `now` the handler took before its findMany.
SweptUser(user, sweptAt) ==
    [user EXCEPT !.isPaidMember = FALSE, !.subscriptionType = NoPlan,
                 !.subscriptionStartDate = Null, !.subscriptionLength = NoPlan,
                 !.subscriptionEndDate = Null,
                 !.lastSubscriptionEndDate = Some(sweptAt),
                 !.trialStartDate = Null, !.trialEndDate = Null]

\* The row extendSubscription writes.
ExtendedUser(user, subscriptionType) ==
    LET newSubscriptionStart ==
            IF ~IsNull(user.subscriptionEndDate) /\ Val(user.subscriptionEndDate) > now
            THEN Val(user.subscriptionEndDate) ELSE now
    IN  [user EXCEPT
            !.isPaidMember = TRUE,
            !.subscriptionStartDate = Some(newSubscriptionStart),
            !.subscriptionEndDate =
                Some(newSubscriptionStart + getSubscriptionDuration(subscriptionType)),
            !.trialStartDate = Null, !.trialEndDate = Null]

\* The events the webhook can be handed: those the requests gave rise to, and
\* the cancellation of the subscription a checkout session has opened.
Deliverable ==
    events \cup
    { Event(0 - e.id, "customer.subscription.deleted", e.userId, NoPlan) :
        e \in { x \in events : x.type = "checkout.session.completed" } }

\* POST /api/stripe/create-checkout-session: the customer pays on the
\* processor's page, which then reports checkout.session.completed with the
\* session's metadata (userId only).
createCheckoutSession(userId) ==
    /\ users[userId].exists
    /\ Cardinality(events) < MaxEvents
    /\ events' = events \cup
           { Event(Cardinality(events) + 1, "checkout.session.completed",
                   userId, NoPlan) }
    /\ response' = BillingResp("create-checkout-session", userId, TRUE, NoPlan,
                               Cardinality(events) + 1)
    /\ UNCHANGED <<now, ticks, users, pool, tests, completing, resumedAt, deliveries, sweeping, client>>

\* POST /api/stripe/create-subscription: createSubscriptionHandler, then
\* createOneTimePayment.  A successful charge is reported later by a
\* payment_intent.succeeded event that carries the intent's metadata.
createOneTimePayment(userId, subscriptionLength, charged) ==
    /\ users[userId].exists
    /\ charged => Cardinality(events) < MaxEvents
    /\ users' = [users EXCEPT ![userId] =
                    UserAfterOneTimePayment(users[userId], subscriptionLength, charged)]
    /\ events' = IF charged
                 THEN events \cup { Event(Cardinality(events) + 1,
                                          "payment_intent.succeeded",
                                          userId, subscriptionLength) }
                 ELSE events
    /\ response' = BillingResp("create-subscription", userId, charged,
                               subscriptionLength,
                               IF charged THEN Cardinality(events) + 1 ELSE 0)
    /\ UNCHANGED <<now, ticks, pool, tests, completing, resumedAt, deliveries, sweeping, client>>

\* POST /api/stripe/renew-subscription: renewSubscriptionHandler, then
\* renewSubscription.
renewSubscription(userId, subscriptionLength, charged) ==
    /\ users[userId].exists
    /\ charged => Cardinality(events) < MaxEvents
    /\ users' = [users EXCEPT ![userId] =
                    UserAfterRenewal(users[userId], subscriptionLength, charged)]
    /\ events' = IF charged
                 THEN events \cup { Event(Cardinality(events) + 1,
                                          "payment_intent.succeeded",
                                          userId, subscriptionLength) }
                 ELSE events
    /\ response' = BillingResp("renew-subscription", userId, charged,
                               subscriptionLength,
                               IF charged THEN Cardinality(events) + 1 ELSE 0)
    /\ UNCHANGED <<now, ticks, pool, tests, completing, resumedAt, deliveries, sweeping, client>>

\* POST /api/stripe/webhook with a verified event: handleStripeWebhook.  The
\* processor delivers an event at least once.
handleStripeWebhook(event) ==
    /\ event \in Deliverable
    /\ CopiesIn(event.id, deliveries) < MaxDeliveries
    /\ users' = [users EXCEPT ![event.userId] = WebhookUser(users[event.userId], event)]
    /\ deliveries' = deliveries (+) SetToBag({event.id})
    /\ response' = BillingResp("webhook", event.userId, TRUE,
                               event.subscriptionLength, event.id)
    /\ UNCHANGED <<now, ticks, pool, tests, completing, resumedAt, events, sweeping, client>>

\* POST /api/auth/check-expired-subscriptions, called by any signed-in user,
\* first half: `now` is taken and findMany reads the expired rows.  Each row
\* found is then updated by its id alone, in a query of its own; with no row
\* found the handler answers at once.
checkAndUpdateExpiredSubscriptions(caller) ==
    /\ users[caller].exists
    /\ LET expiredSubscriptionUsers ==
               { u \in Users : SubscriptionExpired(users[u]) }
       IN  IF expiredSubscriptionUsers = {}
           THEN /\ response' = BillingResp("check-expired-subscriptions", caller,
                                           TRUE, NoPlan, 0)
                /\ UNCHANGED sweeping
           ELSE /\ sweeping' = sweeping \cup
                       { [userId |-> u, now |-> now] : u \in expiredSubscriptionUsers }
                /\ Cardinality(sweeping') <= MaxSweeping
                /\ UNCHANGED response
    /\ UNCHANGED <<now, ticks, users, pool, tests, completing, resumedAt, events, deliveries, client>>

\* Second half of checkAndUpdateExpiredSubscriptions: the update of one row
\* that findMany had found.
updateExpiredSubscription(sweep) ==
    /\ sweep \in sweeping
    /\ users' = [users EXCEPT ![sweep.userId] =
                    SweptUser(users[sweep.userId], sweep.now)]
    /\ sweeping' = sweeping \ {sweep}
    /\ response' = BillingResp("check-expired-subscriptions", sweep.userId,
                               TRUE, NoPlan, 0)
    /\ UNCHANGED <<now, ticks, pool, tests, completing, resumedAt, events, deliveries, client>>

\* POST /api/auth/manage-subscription.  The update writes the one request
\* value into both enum columns subscriptionType (ONE_TIME) and
\* subscriptionLength (ONE_MONTH, THREE_MONTHS); no value is in both enums, so
\* the update is refused and the handler answers with an error.
manageSubscription(caller, userId, subscriptionType) ==
    /\ users[caller].exists
    /\ response' = BillingResp("manage-subscription", userId, FALSE,
                               subscriptionType, 0)
    /\ UNCHANGED <<now, ticks, users, pool, tests, completing, resumedAt, events, deliveries, sweeping, client>>

\* POST /api/auth/extend-subscription with the userId and subscriptionType of
\* the body.  A plan name is refused by the subscriptionType enum as in
\* manageSubscription; without a subscriptionType the update goes through
\* with a duration of 0.
extendSubscription(caller, userId, subscriptionType) ==
    /\ users[caller].exists
    /\ IF users[userId].exists /\ subscriptionType = NoPlan
       THEN /\ users' = [users EXCEPT ![userId] =
                            ExtendedUser(users[userId], subscriptionType)]
            /\ response' = BillingResp("extend-subscription", userId, TRUE,
                                       subscriptionType, 0)
       ELSE /\ response' = BillingResp("extend-subscription", userId, FALSE,
                                       subscriptionType, 0)
            /\ UNCHANGED users
    /\ UNCHANGED <<now, ticks, pool, tests, completing, resumedAt, events, deliveries, sweeping, client>>

BillingSteps == {25 * Day, 31 * Day}

\* The one user who registers in the billing specification; the handlers
\* treat every user's row alike.
Customer == "u1"

BillingNext ==
    \/ \E d \in BillingSteps : Tick(d)
    \/ \E len \in Plans \cup {NoPlan} : register(Customer, len)
    \/ \E u \in Users : getMembershipStatus(u)
    \/ \E u \in Users : createCheckoutSession(u)
    \/ \E u \in Users, len \in Plans, charged \in BOOLEAN :
          createOneTimePayment(u, len, charged)
    \/ \E u \in Users, len \in Plans, charged \in BOOLEAN :
          renewSubscription(u, len, charged)
    \/ \E event \in Deliverable : handleStripeWebhook(event)
    \/ \E u \in Users : checkAndUpdateExpiredSubscriptions(u)
    \/ \E sweep \in sweeping : updateExpiredSubscription(sweep)
    \/ \E c \in Users, u \in Users, type \in Plans : manageSubscription(c, u, type)
    \/ \E c \in Users, u \in Users, type \in Plans \cup {NoPlan} :
          extendSubscription(c, u, type)

\* Registration, purchases, renewals, the processor's events and the expiry
\* sweep.
SpecBilling == Init /\ [][BillingNext]_vars

RegisterNext ==
    \/ \E d \in GateSteps : Tick(d)
    \/ \E u \in Users, len \in Plans \cup {NoPlan} : register(u, len)
    \/ \E u \in Users : getMembershipStatus(u)

\* Registration at any time, and the status read.
SpecRegister == Init /\ [][RegisterNext]_vars

\* A nullable date column around the instant Day: null, a second before, the
\* instant itself, a second after.
NullableDates == {Null} \cup { Some(d) : d \in {Day - 1, Day, Day + 1} }

\* Every combination of the columns getUserSubscriptionStatus reads.
StatusRows ==
    { [NoUser EXCEPT !.exists = TRUE, !.isPaidMember = p,
                     !.subscriptionEndDate = e,
                     !.trialStartDate = s, !.trialEndDate = t] :
        p \in BOOLEAN, e \in NullableDates, s \in NullableDates, t \in NullableDates }

StatusInit ==
    /\ now = Day
    /\ ticks = 0
    /\ users \in [Users -> StatusRows]
    /\ pool = SessionPool
    /\ tests = <<>>
    /\ completing = EmptyBag
    /\ resumedAt = <<>>
    /\ response = NoResponse
    /\ events = {}
    /\ deliveries = EmptyBag
    /\ sweeping = {}
    /\ client = NoClient

StatusNext == \E u \in Users : getMembershipStatus(u)

\* The status read over every combination of the entitlement columns.
SpecStatus == StatusInit /\ [][StatusNext]_vars

----------------------------------------------------------------------------
(* The test page in the browser *)

\* The two test pages of the frontend: TestView.tsx and TestInterface.tsx.
Views == {"TestView", "TestInterface"}

\* The remaining seconds a GET /api/tests/:testId answer carries to the page.
Countdowns == 1..MaxCountdown

\* The page after its fetch has resolved: setTest(test) and the countdown state
\* set from the answer; the timer effect is due after this render.  TestView
\* takes test.remainingSeconds || test.totalTestDuration || 3600, TestInterface
\* takes response.data.remainingSeconds as it is.
FetchedClient(view, status, remainingSeconds) ==
    [ view |-> view, mounted |-> TRUE, status |-> status,
      remainingSeconds |->
          IF view = "TestView" /\ remainingSeconds = 0
          THEN TotalTestDuration ELSE remainingSeconds,
      timerId |-> FALSE,      \* an interval of the timer effect is running
      listening |-> FALSE,    \* the visibilitychange listener is attached
      effectDue |-> TRUE,     \* a dependency of the timer effect has changed
      pending |-> 0,          \* complete requests sent and not yet answered
      completeRequests |-> 0, \* complete requests sent so far
      pauseRequest |-> Null,  \* remainingSeconds of the last pause request
      error |-> FALSE ]

\* fetchTestDetails of TestView, fetchTestData of TestInterface: the signed-in
\* user opens the page of a test and the details arrive.
fetchTestDetails(view, status, remainingSeconds) ==
    /\ client = NoClient
    /\ client' = FetchedClient(view, status, remainingSeconds)
    /\ UNCHANGED <<now, ticks, users, pool, tests, completing, resumedAt, response, events, deliveries, sweeping>>

\* The body of the timer effect decides whether an interval is set.
TimerStarts(c) ==
    IF c.view = "TestView" THEN c.status # "COMPLETED" ELSE TRUE

\* The timer effect runs after a render in which one of its dependencies has
\* changed ([test, testId, token, remainingSeconds] in TestView, [test] in
\* TestInterface): the cleanup of the previous run clears its interval and
\* removes its listener, then the body sets a new interval and, in TestView,
\* adds the visibilitychange listener.
timerEffect ==
    /\ client # NoClient
    /\ client.mounted /\ client.effectDue
    /\ client' = [client EXCEPT
                     !.effectDue = FALSE,
                     !.timerId = TimerStarts(client),
                     !.listening = TimerStarts(client) /\ client.view = "TestView"]
    /\ UNCHANGED <<now, ticks, users, pool, tests, completing, resumedAt, response, events, deliveries, sweeping>>

\* The state updater the interval callback hands to the countdown setter says
\* that time has run out: newRemaining <= 0 in TestView, prev <= 1 in
\* TestInterface.
TimeRunsOut(c) ==
    IF c.view = "TestView" THEN c.remainingSeconds - 1 <= 0
    ELSE c.remainingSeconds <= 1

\* The page after a callback of the interval, a second after the last one.
\* When time runs out the updater calls handleCompleteTest, clears the interval
\* and returns 0; a countdown value that differs from the previous one makes
\* the timer effect of TestView run again.
TickedClient(c) ==
    LET remainingSeconds == IF TimeRunsOut(c) THEN 0 ELSE c.remainingSeconds - 1
    IN  [c EXCEPT
            !.remainingSeconds = remainingSeconds,
            !.timerId = ~TimeRunsOut(c),
            !.pending = IF TimeRunsOut(c) THEN @ + 1 ELSE @,
            !.completeRequests = IF TimeRunsOut(c) THEN @ + 1 ELSE @,
            !.effectDue = c.view = "TestView"
                          /\ remainingSeconds # c.remainingSeconds]

\* A callback of the running interval.  Effects that are due are flushed
\* before the next state update is processed.
timerTick ==
    /\ client # NoClient
    /\ client.mounted /\ client.timerId /\ ~client.effectDue
    /\ TimeRunsOut(client) => client.completeRequests < MaxSends
    /\ client' = TickedClient(client)
    /\ now' = now + 1
    /\ UNCHANGED <<ticks, users, pool, tests, completing, resumedAt, response, events, deliveries, sweeping>>

\* handleVisibilityChange of TestView with document.hidden: a pause request
\* with the countdown value of the effect's closure, and clearInterval.
visibilityHidden ==
    /\ client # NoClient
    /\ client.mounted /\ client.listening /\ ~client.effectDue
    /\ client' = [client EXCEPT !.pauseRequest = Some(client.remainingSeconds),
                                !.timerId = FALSE]
    /\ UNCHANGED <<now, ticks, users, pool, tests, completing, resumedAt, response, events, deliveries, sweeping>>

\* handleAnswerSelection of TestInterface after its PATCH has resolved:
\* setTest with a new object, a changed dependency of the timer effect.
\* (handleAnswerSubmit of TestView sets selectedAnswer only and is left out.)
handleAnswerSelection ==
    /\ client # NoClient
    /\ client.mounted /\ client.view = "TestInterface"
    /\ client' = [client EXCEPT !.effectDue = TRUE]
    /\ UNCHANGED <<now, ticks, users, pool, tests, completing, resumedAt, response, events, deliveries, sweeping>>

\* handleCompleteTest after its await: the complete request is answered,
\* sooner or later, and navigate() takes the user off the page, which unmounts
\* it and runs the cleanup of the timer effect; or the request fails, and the
\* page stays (TestView shows the error).
completeAnswered(ok) ==
    /\ client # NoClient
    /\ client.pending > 0
    /\ client' =
          IF ok
          THEN [client EXCEPT !.pending = @ - 1, !.mounted = FALSE,
                              !.timerId = FALSE, !.listening = FALSE,
                              !.effectDue = FALSE]
          ELSE [client EXCEPT !.pending = @ - 1,
                              !.error = @ \/ (client.mounted /\ client.view = "TestView")]
    /\ UNCHANGED <<now, ticks, users, pool, tests, completing, resumedAt, response, events, deliveries, sweeping>>

ClientNext ==
    \/ \E view \in Views, status \in {"IN_PROGRESS", "COMPLETED"}, r \in Countdowns :
          fetchTestDetails(view, status, r)
    \/ timerEffect
    \/ timerTick
    \/ visibilityHidden
    \/ handleAnswerSelection
    \/ \E ok \in BOOLEAN : completeAnswered(ok)

\* A signed-in user on the page of one of their tests.
SpecClient == SessionInit /\ [][ClientNext]_vars

----------------------------------------------------------------------------
(* Properties *)

SessionOps == {"getTestDetails", "start", "pause", "complete", "recordAnswer"}
MutatingOps == {"start", "pause", "recordAnswer"}
ExpiredStatuses == {"EXPIRED_TRIAL", "EXPIRED_PAID"}

Completed(t) == tests[t].status = "COMPLETED"

\* C1: once a test is COMPLETED, every later start, pause or recordAnswer on
\* it is rejected and the test row and its answers stay as they are.
C1_CompletedIsTerminal ==
    [][\A t \in 1..Len(tests) :
          ( /\ Completed(t)
            /\ response' # response
            /\ response'.op \in MutatingOps
            /\ response'.test = t )
          => (~response'.ok /\ tests'[t] = tests[t])]_vars

\* C2: every completed test that has questions stores a score between 0 and
\* 100 that is round(100 * correct / total) of its stored answers.
C2_ScoreMatchesAnswers ==
    \A t \in 1..Len(tests) :
        (Completed(t) /\ Len(tests[t].testQuestions) > 0)
        => /\ ~IsNull(tests[t].score)
           /\ Val(tests[t].score) \in 0..100
           /\ tests[t].score =
                  Score(CorrectAnswers(tests[t].testQuestions),
                        Len(tests[t].testQuestions))

\* C3: a second complete call on a test, however it interleaves with the
\* first and with recordAnswer calls, leaves the score the first call stored.
C3_SecondCompleteKeepsScore ==
    [][\A t \in 1..Len(tests) :
          Completed(t) => tests'[t].score = tests[t].score]_vars

\* C4: no Test row is created for a caller whose derived entitlement status
\* is EXPIRED_TRIAL or EXPIRED_PAID.
C4_CreateTestNeedsEntitlement ==
    [][Len(tests') > Len(tests)
          => getUserSubscriptionStatus(users[tests'[Len(tests')].userId], now).status
                \notin ExpiredStatuses]_vars

\* C5: a test-session operation called by a user who does not own the test
\* fails and leaves every test and every stored answer unchanged.
C5_NonOwnerFails ==
    [][( /\ response' # response
         /\ response'.op \in SessionOps
         /\ response'.test \in 1..Len(tests)
         /\ tests[response'.test].userId # response'.user )
       => (~response'.ok /\ tests' = tests)]_vars

\* A user who does not own the test tried to record an answer of a question
\* the owner has answered, and was refused.
C5_Witness ==
    /\ response.op = "recordAnswer" /\ ~response.ok
    /\ response.test \in 1..Len(tests)
    /\ tests[response.test].userId # response.user
    /\ response.val \in 1..Len(tests[response.test].testQuestions)
    /\ ~IsNull(tests[response.test].testQuestions[response.val].userAnswer)

\* C6: the stored remainingSeconds of a test is never negative.
C6_RemainingNeverNegative ==
    \A t \in 1..Len(tests) :
        IsNull(tests[t].remainingSeconds) \/ Val(tests[t].remainingSeconds) >= 0

\* C7: the stored remainingSeconds of a test rises only in a step that is a
\* successful pause call on that test; start, recordAnswer and complete
\* never raise it.
C7_RemainingOnlyRaisedByPause ==
    [][\A t \in 1..Len(tests) :
          ( /\ ~IsNull(tests[t].remainingSeconds)
            /\ ~IsNull(tests'[t].remainingSeconds)
            /\ Val(tests'[t].remainingSeconds) > Val(tests[t].remainingSeconds) )
          => ( /\ response'.op = "pause" /\ response'.ok
               /\ response'.test = t
               /\ response'.val = Val(tests'[t].remainingSeconds) )]_vars

\* start was called on a test that had been paused with less than the total
\* duration left: the test runs again and the stored value is still the one
\* the pause stored.
C7_Witness ==
    /\ response.op = "start" /\ response.ok
    /\ IsNull(tests[response.test].pausedTime)
    /\ ~IsNull(resumedAt[response.test])
    /\ tests[response.test].remainingSeconds = Some(1800)

\* C8: after a pause that stored R and a start that resumed the test,
\* getTestDetails reports R less the time since the resume, and not less than 0.
C8_ResumeCountsFromCheckpoint ==
    [][( /\ response' # response
         /\ response'.op = "getTestDetails" /\ response'.ok
         /\ ~IsNull(resumedAt[response'.test])
         /\ IsNull(tests[response'.test].pausedTime) )
       => response'.val =
             Max(Val(tests[response'.test].remainingSeconds)
                   - (now - Val(resumedAt[response'.test])), 0)]_vars

\* The number of non-passage questions matching a filter.
NonPassageMatching(subjectFilters, unitFilters) ==
    Cardinality(PassageQuestions(subjectFilters, unitFilters))
        + Cardinality(StandaloneQuestions(subjectFilters, unitFilters))

\* Of every passage, the test holds all the questions matching the filter or
\* none of them.
NoGroupSplit(test, subjectFilters, unitFilters) ==
    LET inTest == { test.testQuestions[i].questionId :
                      i \in 1..Len(test.testQuestions) }
        pq == PassageQuestions(subjectFilters, unitFilters)
    IN  \A k \in { q.passageId : q \in pq } :
            LET group == { q.id : q \in { r \in pq : r.passageId = k } }
            IN  group \cap inTest = {} \/ group \subseteq inTest

\* The response reports a created test of exactly the requested count whose
\* passage groups are whole.
FullTestCreated ==
    /\ response.ok
    /\ response.test \in 1..Len(tests)
    /\ Len(tests[response.test].testQuestions) = response.numQuestions
    /\ NoGroupSplit(tests[response.test], response.subjectFilters,
                    response.unitFilters)

C10_ShortfallCountIsAssemblable ==
    (response.op = "createTest" /\ ~response.ok)
    => /\ response.test = 0
       /\ NonPassageMatching(response.subjectFilters, response.unitFilters) = 0
          => response.val = 0
       /\ ~Assemble(response.subjectFilters, response.unitFilters,
                    response.val).insufficient

\* The questions of one passage stand next to each other in the test.
GroupsContiguous(test) ==
    LET passageOf(i) == QuestionById(test.testQuestions[i].questionId).passageId
    IN  \A i, j \in 1..Len(test.testQuestions) :
            (i < j /\ passageOf(i) # 0 /\ passageOf(i) = passageOf(j))
            => \A m \in i..j : passageOf(m) = passageOf(i)

\* C11: in the question order of every created test the questions of one
\* passage form one uninterrupted block, and of every passage either all the
\* questions matching the filter are in the test or none is.
C11_GroupsContiguousAndWhole ==
    (response.op = "createTest" /\ response.ok)
    => /\ GroupsContiguous(tests[response.test])
       /\ NoGroupSplit(tests[response.test], response.subjectFilters,
                       response.unitFilters)

\* A test was created that holds a passage group of two questions and a
\* standalone question, while another matching passage group was left out.
C11_Witness ==
    /\ response.op = "createTest" /\ response.ok
    /\ LET tq == tests[response.test].testQuestions
           inTest == { QuestionById(tq[i].questionId) : i \in 1..Len(tq) }
       IN  /\ \E q, r \in inTest : q # r /\ q.passageId # 0 /\ q.passageId = r.passageId
           /\ \E q \in inTest : q.passageId = 0
           /\ \E q \in PassageQuestions(response.subjectFilters, response.unitFilters) :
                  q \notin inTest

\* C12: getUserSubscriptionStatus answers, for every combination of now,
\* isPaidMember and the three nullable dates, with the status and flags of the
\* first matching rule of the order ACTIVE_PAID, ACTIVE_TRIAL, EXPIRED_PAID,
\* EXPIRED_TRIAL, NO_SUBSCRIPTION; an end date a second ahead is ACTIVE_PAID
\* whatever the trial dates are, one a second ago is EXPIRED_PAID.
C12_StatusFollowsDecisionOrder ==
    response.op = "membership-status"
    => LET u == users[response.user]
           paid == u.isPaidMember
           hasEnd == ~IsNull(u.subscriptionEndDate)
           hasStart == ~IsNull(u.trialStartDate)
           hasTrialEnd == ~IsNull(u.trialEndDate)
           rule == IF paid /\ hasEnd /\ Val(u.subscriptionEndDate) > now THEN 1
                   ELSE IF ~paid /\ hasStart /\ hasTrialEnd
                           /\ Val(u.trialStartDate) <= now
                           /\ now <= Val(u.trialEndDate) THEN 2
                   ELSE IF paid /\ hasEnd /\ Val(u.subscriptionEndDate) <= now THEN 3
                   ELSE IF ~paid /\ hasTrialEnd /\ Val(u.trialEndDate) <= now THEN 4
                   ELSE 5
           statuses == << "ACTIVE_PAID", "ACTIVE_TRIAL", "EXPIRED_PAID",
                          "EXPIRED_TRIAL", "NO_SUBSCRIPTION" >>
       IN  /\ response.status = statuses[rule]
           /\ response.canExtend = (rule \in {1, 3})
           /\ response.canPurchase = (rule # 1)
           /\ (paid /\ u.subscriptionEndDate = Some(now + 1))
              => response.status = "ACTIVE_PAID"
           /\ (paid /\ u.subscriptionEndDate = Some(now - 1))
              => response.status = "EXPIRED_PAID"

\* The status of a paying user was read whose subscription ends a second from
\* now and whose row still carries a trial window around now.
C12_Witness ==
    /\ response.op = "membership-status"
    /\ response.status = "ACTIVE_PAID"
    /\ users[response.user].subscriptionEndDate = Some(now + 1)
    /\ users[response.user].trialStartDate = Some(now - 1)
    /\ users[response.user].trialEndDate = Some(now + 1)

PaymentOps == {"create-subscription", "renew-subscription"}

\* C13: a successful purchase or renewal leaves the user's subscriptionEndDate
\* at max(now, the end date before the call) plus the plan's duration.
C13_PaidThroughExtendsFromCurrentEnd ==
    [][( /\ response' # response
         /\ response'.op \in PaymentOps /\ response'.ok )
       => LET user == users[response'.user]
              currentSubscriptionEndDate ==
                  IF IsNull(user.subscriptionEndDate) THEN now
                  ELSE Val(user.subscriptionEndDate)
          IN  users'[response'.user].subscriptionEndDate =
                  Some(calculateSubscriptionEndDate(
                           response'.subscriptionLength,
                           Max(now, currentSubscriptionEndDate)))]_vars

\* C14: whenever isPaidMember is true, trialStartDate and trialEndDate are
\* both null.
C14_TrialAndPaidExclusive ==
    \A u \in Users :
        users[u].isPaidMember
        => (IsNull(users[u].trialStartDate) /\ IsNull(users[u].trialEndDate))

\* A user who held trial dates has just renewed successfully: before any time
\* has passed, only a row without a subscription end date leaves
\* lastSubscriptionEndDate null in a renewal, and such a row carries a trial.
C14_Witness ==
    /\ ticks = 0
    /\ response.op = "renew-subscription" /\ response.ok
    /\ users[response.user].isPaidMember
    /\ IsNull(users[response.user].lastSubscriptionEndDate)

\* The paid subscription of the user has ended and has not been renewed: the
\* row is still marked paid with an end date that has passed, or the sweep
\* has cleared it and left its marker.
PaidPeriodEnded(user) ==
    /\ user.exists
    /\ \/ /\ user.isPaidMember /\ ~IsNull(user.subscriptionEndDate)
          /\ Val(user.subscriptionEndDate) <= now
       \/ ~user.isPaidMember /\ ~IsNull(user.lastSubscriptionEndDate)

\* C15: once a user's paid subscription has ended, no step sets the trial
\* dates again, and the user's status does not become ACTIVE_TRIAL.
C15_NoSecondTrial ==
    [][\A u \in Users :
          ( /\ PaidPeriodEnded(users[u])
            /\ IsNull(users[u].trialStartDate) /\ IsNull(users[u].trialEndDate) )
          => /\ IsNull(users'[u].trialStartDate) /\ IsNull(users'[u].trialEndDate)
             /\ getUserSubscriptionStatus(users'[u], now').status # "ACTIVE_TRIAL"]_vars

\* C16: a user who registers without a plan has trialStart = now and
\* trialEnd = now + 7 days, has status ACTIVE_TRIAL, and the remaining-trial-
\* days helper returns 7, all at the moment of registration.
C16_FreshTrialHasSevenDays ==
    [][\A u \in Users :
          (~users[u].exists /\ users'[u].exists /\ ~users'[u].isPaidMember)
          => /\ users'[u].trialStartDate = Some(now)
             /\ users'[u].trialEndDate = Some(now + 7 * Day)
             /\ getUserSubscriptionStatus(users'[u], now).status = "ACTIVE_TRIAL"
             /\ calculateRemainingTrialDays(users'[u].trialEndDate,
                                            users'[u].trialStartDate, now) = Some(7)]_vars

\* A user has registered without a plan at a time later than the start, and
\* no time has passed since.
C16_Witness ==
    /\ now > 0
    /\ \E u \in Users :
          /\ users[u].exists /\ ~users[u].isPaidMember
          /\ users[u].trialStartDate = Some(now)

C18_FailedChargeChangesNothing ==
    [][( /\ response' # response
         /\ response'.op \in PaymentOps /\ ~response'.ok )
       => (users' = users /\ events' = events)]_vars

\* The charge of a purchase by a user on an active trial has failed.
C18_Witness ==
    /\ response.op = "create-subscription" /\ ~response.ok
    /\ getUserSubscriptionStatus(users[response.user], now).status = "ACTIVE_TRIAL"

\* C19: handing a purchase-succeeded or renewal-succeeded event to the webhook
\* once more leaves every user row as the earlier delivery left it.
C19_RedeliveryChangesNothing ==
    [][\A id \in BagToSet(deliveries) :
          (id > 0 /\ CopiesIn(id, deliveries') > CopiesIn(id, deliveries))
          => users' = users]_vars

\* C20: a createTest request for 0 questions is rejected and creates no Test
\* row.
C20_ZeroCountRejected ==
    [][( /\ response' # response
         /\ response'.op = "createTest" /\ response'.numQuestions = 0 )
       => (~response'.ok /\ tests' = tests)]_vars

C22_NewTestNotStarted ==
    [][ Len(tests') > Len(tests)
        => IsNull(tests'[Len(tests')].startTime) ]_vars

\* C23: applying a subscription-cancelled event sets isPaidMember to false,
\* clears subscriptionStartDate, subscriptionEndDate, subscriptionType and
\* subscriptionLength, and grants a trial window from now to seven days on, so
\* that the status derived right afterwards is ACTIVE_TRIAL.
C23_CancellationRegrantsTrial ==
    [][ \A event \in Deliverable :
          /\ event.type = "customer.subscription.deleted"
          /\ CopiesIn(event.id, deliveries') > CopiesIn(event.id, deliveries)
          => LET user == users'[event.userId]
             IN  /\ ~user.isPaidMember
                 /\ IsNull(user.subscriptionStartDate)
                 /\ IsNull(user.subscriptionEndDate)
                 /\ user.subscriptionType = NoPlan
                 /\ user.subscriptionLength = NoPlan
                 /\ user.trialStartDate = Some(now)
                 /\ user.trialEndDate = Some(now + TrialDays * Day)
                 /\ getUserSubscriptionStatus(user, now').status = "ACTIVE_TRIAL"
      ]_vars

\* The cancellation of a paid member's subscription has been applied, more
\* than a first trial window after the registration.
C23_Witness ==
    /\ response.op = "webhook"
    /\ response.val < 0
    /\ now > TrialDays * Day
    /\ users[response.user].exists
    /\ ~users[response.user].isPaidMember
    /\ users[response.user].trialStartDate = Some(now)
    /\ ~IsNull(users[response.user].lastSubscriptionEndDate)

\* C24: every operation that grants or extends a paid period for a plan adds
\* the same duration: one calendar month for ONE_MONTH and three for
\* THREE_MONTHS, counted from now or from the current end date, never a
\* fixed window of 30 or 90 days.
C24_PlansAddCalendarMonths ==
    [][ \A u \in Users :
          LET plan == IF ~users[u].exists \/ response'.op = "webhook"
                      THEN users'[u].subscriptionLength
                      ELSE response'.subscriptionLength
              months == IF plan = "THREE_MONTHS" THEN 3 ELSE 1
          IN  /\ users'[u].isPaidMember
              /\ users'[u].subscriptionEndDate # users[u].subscriptionEndDate
              /\ plan \in Plans
              => Val(users'[u].subscriptionEndDate) \in
                   {setMonth(now, months)} \cup
                   ( IF IsNull(users[u].subscriptionEndDate) THEN {}
                     ELSE {setMonth(Val(users[u].subscriptionEndDate), months)} )
      ]_vars

\* C25: on every execution of the page's countdown, with timer ticks, re-runs
\* of the timer effect, tab-hide events and slow or failing complete requests
\* in any order, the page has sent the complete request exactly once when its
\* countdown has reached zero.
C25_CompleteSentExactlyOnce ==
    client # NoClient /\ client.remainingSeconds = 0
        => client.completeRequests = 1

\* C26: for a started test, the remaining time getTestDetails reports lies
\* between 0 and the stored remainingSeconds; a test whose stored
\* remainingSeconds is 0 is reported with 0 remaining, not with the full
\* totalTestDuration.
C26_ReportedWithinStoredSnapshot ==
    [][ /\ response'.op = "getTestDetails"
        /\ response'.ok
        /\ response' # response
        => LET test == tests[response'.test]
           IN  /\ ~IsNull(test.startTime)
               /\ ~IsNull(test.remainingSeconds)
               /\ Val(test.remainingSeconds) >= 0
               => /\ response'.val >= 0
                  /\ response'.val <= Val(test.remainingSeconds) ]_vars

\* C27: no successful purchase or renewal, and no delivery of a purchase
\* event, moves a user's subscriptionEndDate to an earlier instant; after a
\* renewal before expiry the later payment_intent.succeeded event, or a
\* create-subscription call by the still active member, leaves the extended
\* end date in place.
C27_EndDateNeverMovesBack ==
    [][ \A u \in Users :
          /\ \/ /\ response'.op \in PaymentOps
                /\ response'.ok
                /\ response' # response
             \/ \E event \in events :
                   CopiesIn(event.id, deliveries') > CopiesIn(event.id, deliveries)
          /\ ~IsNull(users[u].subscriptionEndDate)
          => /\ ~IsNull(users'[u].subscriptionEndDate)
             /\ Val(users'[u].subscriptionEndDate)
                   >= Val(users[u].subscriptionEndDate)
      ]_vars

\* C28: a renewal that succeeds while the expiry sweep is running is not
\* lost: when an update of the sweep reaches a user whose renewal was the last
\* request answered and whose row is no longer expired, the user keeps
\* isPaidMember = true and the renewed subscriptionEndDate.
C28_RenewalSurvivesSweep ==
    [][ \A sweep \in sweeping \ sweeping' :
          /\ response.op = "renew-subscription"
          /\ response.ok
          /\ response.user = sweep.userId
          /\ ~SubscriptionExpired(users[sweep.userId])
          => /\ users'[sweep.userId].isPaidMember
             /\ users'[sweep.userId].subscriptionEndDate
                   = users[sweep.userId].subscriptionEndDate
      ]_vars

\* C29: in every reachable user row isPaidMember = true implies that
\* subscriptionEndDate is set, so that a paid member derives ACTIVE_PAID or
\* EXPIRED_PAID and never falls through to NO_SUBSCRIPTION.
C29_PaidMemberHasEndDate ==
    \A u \in Users :
        users[u].isPaidMember
            => /\ ~IsNull(users[u].subscriptionEndDate)
               /\ getUserSubscriptionStatus(users[u], now).status
                     \in {"ACTIVE_PAID", "EXPIRED_PAID"}

\* A paid member whose paid period has ended derives EXPIRED_PAID, and the
\* expiry sweep has found the row and not yet updated it.
C29_Witness ==
    /\ users[Customer].isPaidMember
    /\ ~IsNull(users[Customer].subscriptionEndDate)
    /\ getUserSubscriptionStatus(users[Customer], now).status = "EXPIRED_PAID"
    /\ \E sweep \in sweeping : sweep.userId = Customer

\* C30: a lapsed paid user keeps the "was paid, now lapsed" entitlement
\* across the expiry sweep: right after the sweep has updated a paid user
\* whose subscriptionEndDate lies before now, the derived status is still
\* EXPIRED_PAID with canExtend and canPurchase.
C30_SweptUserStaysExpiredPaid ==
    [][ \A sweep \in sweeping \ sweeping' :
          SubscriptionExpired(users[sweep.userId])
          => getUserSubscriptionStatus(users'[sweep.userId], now')
               = [status |-> "EXPIRED_PAID", canExtend |-> TRUE,
                  canPurchase |-> TRUE]
      ]_vars

====
